---- MODULE Spec2Model ----
(***************************************************************************)
(* Model of the phone book repository (package core, MongoPhoneBook) and   *)
(* of the MongoDB collection it talks to.                                  *)
(*                                                                         *)
(* A Go string is a sequence of one-character strings, so that the regular *)
(* expressions, strconv.Atoi and the ObjectID hex conversions are computed *)
(* character by character.  A stored document is a record whose string     *)
(* fields are <<>> when the field is absent from the document: the struct  *)
(* tags of definition.Contact carry omitempty, so neither InsertOne nor    *)
(* $set ever writes an empty string.                                       *)
(***************************************************************************)
EXTENDS Integers, Sequences, FiniteSets, TLC

VARIABLES store, generated, dbUp, limitPerPage, last, inflight

vars == <<store, generated, dbUp, limitPerPage, last, inflight>>

(***************************************************************************)
(* Characters and strings                                                  *)
(***************************************************************************)
LowerLetters == {"a","b","c","d","e","f","g","h","i","j","k","l","m",
                 "n","o","p","q","r","s","t","u","v","w","x","y","z"}

UpperLetters == {"A","B","C","D","E","F","G","H","I","J","K","L","M",
                 "N","O","P","Q","R","S","T","U","V","W","X","Y","Z"}

DigitChars == <<"0","1","2","3","4","5","6","7","8","9">>

Digits == {DigitChars[i] : i \in 1..10}

Range(s) == {s[i] : i \in 1..Len(s)}

onlyDigitsRegex_Unanchored(s) == \E i \in 1..Len(s) : s[i] \in Digits

\* regexp.MustCompile(`^[0-9]+$`).MatchString
onlyDigitsRegex(s) == Len(s) >= 1 /\ \A i \in 1..Len(s) : s[i] \in Digits

\* regexp.MustCompile(`^[a-zA-Z]+$`).MatchString
onlyLettersRegex(s) ==
    Len(s) >= 1 /\ \A i \in 1..Len(s) : s[i] \in LowerLetters \cup UpperLetters

(***************************************************************************)
(* Errors and error kinds                                                  *)
(***************************************************************************)
nil == "<nil>"

ErrorMissingFirstName == "can't add contact without first name"

ErrorMissingPhone == "can't add contact without phone number"

ErrorMissingID == "doesn't sent contact id"

ErrorInvalidPhone == "invalid phone number. phone should include digits only"

ErrorInvalidFirstName == "invalid first name. name should include letters only"

ErrorInvalidLastName == "invalid last name. name should include letters only"

BadRequest == "BadRequest"

InternalServerError == "InternalServerError"

NoKind == ""

ErrPageNotPositive == "page number must be positive"

ErrAtoiSyntax == "strconv.Atoi: invalid syntax"

\* primitive.ErrInvalidHex
ErrInvalidHex == "the provided hex string is not a valid ObjectID"

\* encoding/hex InvalidByteError
ErrHexInvalidByte == "encoding/hex: invalid byte"

\* errors the MongoDB server or the driver answers with
ErrDuplicateKey == "E11000 duplicate key error"

ErrImmutableField == "would modify the immutable field '_id'"

ErrNegativeSkip == "Skip value must be non-negative"

ErrUnknownOperator == "unknown top level operator"

ErrOrNeedsArray == "$or must be an array"

ErrServerSelection == "server selection error"

(***************************************************************************)
(* validateContact                                                         *)
(***************************************************************************)
validateContact_SwapPhone(contact) ==
    IF contact.FirstName = <<>> THEN ErrorMissingFirstName
    ELSE IF ~onlyLettersRegex(contact.FirstName) THEN ErrorInvalidFirstName
    ELSE IF contact.Phone = <<>> THEN ErrorMissingPhone
    ELSE IF ~onlyDigitsRegex(contact.Phone) THEN ErrorInvalidPhone
    ELSE IF contact.LastName # <<>> /\ ~onlyLettersRegex(contact.LastName)
         THEN ErrorInvalidLastName
    ELSE nil

validateContact(contact) ==
    IF contact.FirstName = <<>> THEN ErrorMissingFirstName
    ELSE IF ~onlyLettersRegex(contact.FirstName) THEN ErrorInvalidFirstName
    ELSE IF contact.LastName # <<>> /\ ~onlyLettersRegex(contact.LastName)
         THEN ErrorInvalidLastName
    ELSE IF contact.Phone = <<>> THEN ErrorMissingPhone
    ELSE IF ~onlyDigitsRegex(contact.Phone) THEN ErrorInvalidPhone
    ELSE nil

(***************************************************************************)
(* primitive.ObjectID: twelve bytes, written as 24 hex characters          *)
(***************************************************************************)
ObjectIDLen == 12

HexLen == 24

HexChars == <<"0","1","2","3","4","5","6","7","8","9","a","b","c","d","e","f">>

UpperHexChars == <<"0","1","2","3","4","5","6","7","8","9","A","B","C","D","E","F">>

NilObjectID == [i \in 1..ObjectIDLen |-> 0]

\* encoding/hex fromHexChar: the value of a hex character, -1 when it is none
fromHexChar(c) ==
    IF \E v \in 1..16 : HexChars[v] = c
    THEN (CHOOSE v \in 1..16 : HexChars[v] = c) - 1
    ELSE IF \E v \in 1..16 : UpperHexChars[v] = c
    THEN (CHOOSE v \in 1..16 : UpperHexChars[v] = c) - 1
    ELSE -1

\* ObjectID.Hex
Hex(id) ==
    [i \in 1..(2 * Len(id)) |->
        IF i % 2 = 1 THEN HexChars[(id[(i + 1) \div 2] \div 16) + 1]
                     ELSE HexChars[(id[i \div 2] % 16) + 1]]


ObjectIDFromHex_Lenient(s) ==
    IF Len(s) # HexLen \/ \E i \in 1..Len(s) : fromHexChar(s[i]) = -1
    THEN [id |-> NilObjectID, err |-> nil]
    ELSE [id  |-> [i \in 1..ObjectIDLen |->
                      16 * fromHexChar(s[2 * i - 1]) + fromHexChar(s[2 * i])],
          err |-> nil]

\* primitive.ObjectIDFromHex
ObjectIDFromHex(s) ==
    IF Len(s) # HexLen THEN [id |-> NilObjectID, err |-> ErrInvalidHex]
    ELSE IF \E i \in 1..Len(s) : fromHexChar(s[i]) = -1
         THEN [id |-> NilObjectID, err |-> ErrHexInvalidByte]
    ELSE [id  |-> [i \in 1..ObjectIDLen |->
                      16 * fromHexChar(s[2 * i - 1]) + fromHexChar(s[2 * i])],
          err |-> nil]

\* ObjectID.String: fmt.Sprintf("ObjectID(%q)", id.Hex())
String(id) ==
    <<"O","b","j","e","c","t","I","D","(","\"">> \o Hex(id) \o <<"\"",")">>

\* Go's s[lo:hi], zero-based and half-open
Slice(s, lo, hi) == SubSeq(s, lo + 1, hi)

InsertedPrefix == <<"I","n","s","e","r","t","e","d"," ","I","D",":"," ">>

\* fmt.Sprintf("Inserted ID: %s", id.String()[10:34])
InsertedMessage_OffByOne(id) == InsertedPrefix \o Slice(String(id), 9, 33)

InsertedMessage(id) == InsertedPrefix \o Slice(String(id), 10, 34)

\* primitive.NewObjectID: timestamp, process-unique bytes and a counter
NewObjectID(n) == <<101, 67, 33, 171, 205, 239, 1, 35, 69, 0, 0, n>>

\* an identifier a client puts into the _id of a request body
ClientObjectID == <<18, 52, 18, 52, 18, 52, 18, 52, 18, 52, 18, 52>>

(***************************************************************************)
(* definition.Contact and its BSON document                                *)
(***************************************************************************)
ZeroContact ==
    [ID |-> NilObjectID, FirstName |-> <<>>, LastName |-> <<>>,
     Phone |-> <<>>, Address |-> <<>>]

\* bson.Marshal of a Contact: omitempty leaves out every empty field, the
\* document gets the identifier id
Marshal(contact, id) ==
    [_id |-> id, firstName |-> contact.FirstName, lastName |-> contact.LastName,
     phone |-> contact.Phone, address |-> contact.Address]

\* cursor.Decode into a Contact: an absent field decodes to the empty string
Decode(doc) ==
    [ID |-> doc._id, FirstName |-> doc.firstName, LastName |-> doc.lastName,
     Phone |-> doc.phone, Address |-> doc.address]

DecodeAll(docs) == [i \in 1..Len(docs) |-> Decode(docs[i])]

kId == <<"_","i","d">>

kFirstName == <<"f","i","r","s","t","N","a","m","e">>

kLastName == <<"l","a","s","t","N","a","m","e">>

kPhone == <<"p","h","o","n","e">>

kAddress == <<"a","d","d","r","e","s","s">>

kComment == <<"$","c","o","m","m","e","n","t">>

kOr == <<"$","o","r">>

\* the string stored under a key of the document, <<>> when the document has
\* no string under that key (_id holds an ObjectID, never a string)
DocField(doc, key) ==
    IF key = kFirstName THEN doc.firstName
    ELSE IF key = kLastName THEN doc.lastName
    ELSE IF key = kPhone THEN doc.phone
    ELSE IF key = kAddress THEN doc.address
    ELSE <<>>

(***************************************************************************)
(* The MongoDB collection: the commands the repository sends               *)
(***************************************************************************)
IndexOf(st, id) ==
    IF \E i \in 1..Len(st) : st[i]._id = id
    THEN CHOOSE i \in 1..Len(st) : st[i]._id = id
    ELSE 0

IsOperatorKey(key) == Len(key) >= 1 /\ key[1] = "$"

\* the server's answer to a filter it cannot parse, nil when it can
FilterError(filter) ==
    IF \E k \in DOMAIN filter : IsOperatorKey(k) /\ k = kOr THEN ErrOrNeedsArray
    ELSE IF \E k \in DOMAIN filter : IsOperatorKey(k) /\ k # kComment
         THEN ErrUnknownOperator
    ELSE nil

\* a filter key that starts with $ is a query operator, not a field name:
\* $comment is accepted and selects nothing out
Matches(doc, filter) ==
    \A k \in DOMAIN filter :
        IF IsOperatorKey(k) THEN k = kComment
        ELSE DocField(doc, k) # <<>> /\ DocField(doc, k) = filter[k]

RECURSIVE SelectDocs(_, _)
SelectDocs(st, filter) ==
    IF st = <<>> THEN <<>>
    ELSE IF Matches(Head(st), filter)
         THEN <<Head(st)>> \o SelectDocs(Tail(st), filter)
         ELSE SelectDocs(Tail(st), filter)

Min(a, b) == IF a < b THEN a ELSE b

\* Collection.Find(filter, skip, limit): limit 0 is no limit
Find(st, up, filter, skip, limit) ==
    IF ~up THEN [docs |-> <<>>, err |-> ErrServerSelection]
    ELSE IF skip < 0 THEN [docs |-> <<>>, err |-> ErrNegativeSkip]
    ELSE IF FilterError(filter) # nil
         THEN [docs |-> <<>>, err |-> FilterError(filter)]
    ELSE LET sel == SelectDocs(st, filter)
             hi  == IF limit = 0 THEN Len(sel) ELSE Min(skip + limit, Len(sel))
         IN  [docs |-> SubSeq(sel, skip + 1, hi), err |-> nil]

\* Collection.InsertOne: the driver adds a new ObjectID when the document
\* has no _id; the server rejects an _id that is already stored
InsertOne(st, gen, up, contact) ==
    LET fresh == contact.ID = NilObjectID
        id    == IF fresh THEN NewObjectID(gen + 1) ELSE contact.ID
        gen2  == IF fresh THEN gen + 1 ELSE gen
    IN  IF ~up
        THEN [store |-> st, generated |-> gen2, insertedID |-> NilObjectID,
              err |-> ErrServerSelection]
        ELSE IF IndexOf(st, id) # 0
        THEN [store |-> st, generated |-> gen2, insertedID |-> NilObjectID,
              err |-> ErrDuplicateKey]
        ELSE [store |-> Append(st, Marshal(contact, id)), generated |-> gen2,
              insertedID |-> id, err |-> nil]

\* the document after {"$set": contact}: omitempty leaves the empty fields
\* out of the $set document
SetFields_All(doc, contact) ==
    [_id       |-> doc._id,
     firstName |-> contact.FirstName,
     lastName  |-> contact.LastName,
     phone     |-> contact.Phone,
     address   |-> contact.Address]

SetFields(doc, contact) ==
    [_id       |-> doc._id,
     firstName |-> IF contact.FirstName # <<>> THEN contact.FirstName
                   ELSE doc.firstName,
     lastName  |-> IF contact.LastName # <<>> THEN contact.LastName
                   ELSE doc.lastName,
     phone     |-> IF contact.Phone # <<>> THEN contact.Phone ELSE doc.phone,
     address   |-> IF contact.Address # <<>> THEN contact.Address
                   ELSE doc.address]


UpdateOne_Upsert(st, up, id, contact) ==
    LET i == IndexOf(st, id) IN
    IF ~up THEN [store |-> st, modifiedCount |-> 0, err |-> ErrServerSelection]
    ELSE IF i = 0
    THEN [store |-> Append(st, Marshal(contact, id)), modifiedCount |-> 0,
          err |-> nil]
    ELSE IF contact.ID # NilObjectID /\ contact.ID # id
         THEN [store |-> st, modifiedCount |-> 0, err |-> ErrImmutableField]
    ELSE [store |-> [st EXCEPT ![i] = SetFields(st[i], contact)],
          modifiedCount |-> IF SetFields(st[i], contact) = st[i] THEN 0 ELSE 1,
          err |-> nil]

UpdateOne_SetsID(st, up, id, contact) ==
    LET i == IndexOf(st, id) IN
    IF ~up THEN [store |-> st, modifiedCount |-> 0, err |-> ErrServerSelection]
    ELSE IF i = 0 THEN [store |-> st, modifiedCount |-> 0, err |-> nil]
    ELSE [store |-> [st EXCEPT ![i] =
                       [SetFields(st[i], contact) EXCEPT
                           !._id = IF contact.ID # NilObjectID THEN contact.ID
                                   ELSE st[i]._id]],
          modifiedCount |-> 1,
          err |-> nil]

UpdateOne_Replace(st, up, id, contact) ==
    LET i == IndexOf(st, id) IN
    IF ~up THEN [store |-> st, modifiedCount |-> 0, err |-> ErrServerSelection]
    ELSE IF i = 0 THEN [store |-> st, modifiedCount |-> 0, err |-> nil]
    ELSE IF contact.ID # NilObjectID /\ contact.ID # id
         THEN [store |-> st, modifiedCount |-> 0, err |-> ErrImmutableField]
    ELSE [store |-> [st EXCEPT ![i] = Marshal(contact, id)],
          modifiedCount |-> IF Marshal(contact, id) = st[i] THEN 0 ELSE 1,
          err |-> nil]

\* Collection.UpdateOne({"_id": id}, {"$set": contact}): a $set of another
\* _id than the matched document's is rejected, ModifiedCount counts the
\* documents the update changed
UpdateOne(st, up, id, contact) ==
    LET i == IndexOf(st, id) IN
    IF ~up THEN [store |-> st, modifiedCount |-> 0, err |-> ErrServerSelection]
    ELSE IF i = 0 THEN [store |-> st, modifiedCount |-> 0, err |-> nil]
    ELSE IF contact.ID # NilObjectID /\ contact.ID # id
         THEN [store |-> st, modifiedCount |-> 0, err |-> ErrImmutableField]
    ELSE [store |-> [st EXCEPT ![i] = SetFields(st[i], contact)],
          modifiedCount |-> IF SetFields(st[i], contact) = st[i] THEN 0 ELSE 1,
          err |-> nil]


DeleteOne_First(st, up, id) ==
    LET i == IndexOf(st, id) IN
    IF ~up THEN [store |-> st, deletedCount |-> 0, err |-> ErrServerSelection]
    ELSE IF i = 0 THEN [store |-> st, deletedCount |-> 0, err |-> nil]
    ELSE [store |-> Tail(st), deletedCount |-> 1, err |-> nil]

\* Collection.DeleteOne({"_id": id})
DeleteOne(st, up, id) ==
    LET i == IndexOf(st, id) IN
    IF ~up THEN [store |-> st, deletedCount |-> 0, err |-> ErrServerSelection]
    ELSE IF i = 0 THEN [store |-> st, deletedCount |-> 0, err |-> nil]
    ELSE [store |-> SubSeq(st, 1, i - 1) \o SubSeq(st, i + 1, Len(st)),
          deletedCount |-> 1, err |-> nil]

(***************************************************************************)
(* strconv.Atoi and validatePageParam                                      *)
(***************************************************************************)
DigitValue(c) == (CHOOSE v \in 1..10 : DigitChars[v] = c) - 1

RECURSIVE DigitsValue(_)
DigitsValue(s) ==
    IF s = <<>> THEN 0
    ELSE 10 * DigitsValue(SubSeq(s, 1, Len(s) - 1)) + DigitValue(s[Len(s)])

\* strconv.Atoi: an optional sign and then one or more decimal digits
Atoi(s) ==
    LET signed == Len(s) >= 1 /\ s[1] \in {"+", "-"}
        body   == IF signed THEN Tail(s) ELSE s
    IN  IF body = <<>> \/ \E i \in 1..Len(body) : body[i] \notin Digits
        THEN [n |-> 0, err |-> ErrAtoiSyntax]
        ELSE [n   |-> IF signed /\ s[1] = "-" THEN 0 - DigitsValue(body)
                      ELSE DigitsValue(body),
              err |-> nil]

\* the decimal spelling of a number that is not negative: fmt's %d
RECURSIVE Itoa(_)
Itoa(n) ==
    IF n < 10 THEN <<DigitChars[n + 1]>>
    ELSE Itoa(n \div 10) \o <<DigitChars[(n % 10) + 1]>>

validatePageParam_NoZeroCheck(pageParam) ==
    IF Len(pageParam) = 0 THEN [page |-> 1, err |-> nil]
    ELSE IF pageParam[1] = <<>> THEN [page |-> 1, err |-> nil]
    ELSE IF Atoi(pageParam[1]).err # nil
         THEN [page |-> -1, err |-> Atoi(pageParam[1]).err]
    ELSE [page |-> Atoi(pageParam[1]).n, err |-> nil]

validatePageParam(pageParam) ==
    IF Len(pageParam) = 0 THEN [page |-> 1, err |-> nil]
    ELSE LET pageStr == pageParam[1] IN
         IF pageStr = <<>> THEN [page |-> 1, err |-> nil]
         ELSE IF pageStr = <<"0">> THEN [page |-> -1, err |-> ErrPageNotPositive]
         ELSE IF Atoi(pageStr).err # nil
              THEN [page |-> -1, err |-> Atoi(pageStr).err]
         ELSE [page |-> Atoi(pageStr).n, err |-> nil]

(***************************************************************************)
(* The repository operations: what a call returns, the collection after   *)
(* it and the commands it sent to the database                            *)
(***************************************************************************)
Outcome(st, gen, contacts, count, msg, kind, err, cmds) ==
    [store |-> st, generated |-> gen, contacts |-> contacts, count |-> count,
     msg |-> msg, kind |-> kind, err |-> err, cmds |-> cmds]

GetContactWithPagination_SkipPages(st, gen, up, limit, pageParam) ==
    LET v == validatePageParam(pageParam) IN
    IF v.err # nil
    THEN Outcome(st, gen, <<>>, 0, <<>>, BadRequest, v.err, <<>>)
    ELSE LET r == Find(st, up, <<>>, v.page * limit, limit) IN
         IF r.err # nil
         THEN Outcome(st, gen, <<>>, 0, <<>>, InternalServerError, r.err,
                      <<"find">>)
         ELSE Outcome(st, gen, DecodeAll(r.docs), 0, <<>>, NoKind, nil,
                      <<"find">>)

GetContactWithPagination_InclusiveLimit(st, gen, up, limit, pageParam) ==
    LET v == validatePageParam(pageParam) IN
    IF v.err # nil
    THEN Outcome(st, gen, <<>>, 0, <<>>, BadRequest, v.err, <<>>)
    ELSE LET r == Find(st, up, <<>>, (v.page - 1) * limit, limit + 1) IN
         IF r.err # nil
         THEN Outcome(st, gen, <<>>, 0, <<>>, InternalServerError, r.err,
                      <<"find">>)
         ELSE Outcome(st, gen, DecodeAll(r.docs), 0, <<>>, NoKind, nil,
                      <<"find">>)

GetContactWithPagination(st, gen, up, limit, pageParam) ==
    LET v == validatePageParam(pageParam) IN
    IF v.err # nil
    THEN Outcome(st, gen, <<>>, 0, <<>>, BadRequest, v.err, <<>>)
    ELSE LET r == Find(st, up, <<>>, (v.page - 1) * limit, limit) IN
         IF r.err # nil
         THEN Outcome(st, gen, <<>>, 0, <<>>, InternalServerError, r.err,
                      <<"find">>)
         ELSE Outcome(st, gen, DecodeAll(r.docs), 0, <<>>, NoKind, nil,
                      <<"find">>)

\* filter[key] = value[0] for every key of the query
BuildFilter(query) == [k \in DOMAIN query |-> query[k][1]]

SearchContact_FindAll(st, gen, up, limit, query) ==
    LET r == Find(st, up, BuildFilter(query), 0, 0) IN
    IF r.err # nil
    THEN Outcome(st, gen, <<>>, 0, <<>>, InternalServerError, r.err,
                 <<"find">>)
    ELSE Outcome(st, gen, DecodeAll(r.docs), 0, <<>>, NoKind, nil, <<"find">>)

SearchContact_DeletesFound(st, gen, up, limit, query) ==
    IF DOMAIN query = {}
    THEN GetContactWithPagination(st, gen, up, limit, << <<"1">> >>)
    ELSE LET r == Find(st, up, BuildFilter(query), 0, 0) IN
         IF r.err # nil
         THEN Outcome(st, gen, <<>>, 0, <<>>, InternalServerError, r.err,
                      <<"find">>)
         ELSE Outcome(SelectSeq(st, LAMBDA d : \A j \in 1..Len(r.docs) :
                                                  r.docs[j] # d),
                      gen, DecodeAll(r.docs), 0, <<>>, NoKind, nil,
                      <<"find">>)

SearchContact(st, gen, up, limit, query) ==
    IF DOMAIN query = {}
    THEN GetContactWithPagination(st, gen, up, limit, << <<"1">> >>)
    ELSE LET r == Find(st, up, BuildFilter(query), 0, 0) IN
         IF r.err # nil
         THEN Outcome(st, gen, <<>>, 0, <<>>, InternalServerError, r.err,
                      <<"find">>)
         ELSE Outcome(st, gen, DecodeAll(r.docs), 0, <<>>, NoKind, nil,
                      <<"find">>)

DeleteContact_NoKindOnFailure(st, gen, up, idParam) ==
    IF idParam = <<>>
    THEN Outcome(st, gen, <<>>, 0, <<>>, BadRequest, ErrorMissingID, <<>>)
    ELSE LET h == ObjectIDFromHex(idParam) IN
         IF h.err # nil
         THEN Outcome(st, gen, <<>>, -1, <<>>, BadRequest, h.err, <<>>)
         ELSE LET r == DeleteOne(st, up, h.id) IN
              IF r.err # nil
              THEN Outcome(st, gen, <<>>, -1, <<>>, NoKind, r.err,
                           <<"delete">>)
              ELSE Outcome(r.store, gen, <<>>, r.deletedCount, <<>>, NoKind,
                           nil, <<"delete">>)

DeleteContact(st, gen, up, idParam) ==
    IF idParam = <<>>
    THEN Outcome(st, gen, <<>>, 0, <<>>, BadRequest, ErrorMissingID, <<>>)
    ELSE LET h == ObjectIDFromHex(idParam) IN
         IF h.err # nil
         THEN Outcome(st, gen, <<>>, -1, <<>>, BadRequest, h.err, <<>>)
         ELSE LET r == DeleteOne(st, up, h.id) IN
              IF r.err # nil
              THEN Outcome(st, gen, <<>>, -1, <<>>, InternalServerError, r.err,
                           <<"delete">>)
              ELSE Outcome(r.store, gen, <<>>, r.deletedCount, <<>>, NoKind,
                           nil, <<"delete">>)


UpdateContact_NoEmptyCheck(st, gen, up, idParam, contact) ==
    LET h == ObjectIDFromHex(idParam) IN
    IF h.err # nil
    THEN Outcome(st, gen, <<>>, -1, <<>>, BadRequest, h.err, <<>>)
    ELSE LET r == UpdateOne(st, up, h.id, contact) IN
         IF r.err # nil
         THEN Outcome(st, gen, <<>>, -1, <<>>, InternalServerError, r.err,
                      <<"update">>)
         ELSE Outcome(r.store, gen, <<>>, r.modifiedCount, <<>>, NoKind,
                      nil, <<"update">>)

UpdateContact(st, gen, up, idParam, contact) ==
    IF idParam = <<>>
    THEN Outcome(st, gen, <<>>, 0, <<>>, BadRequest, ErrorMissingID, <<>>)
    ELSE LET h == ObjectIDFromHex(idParam) IN
         IF h.err # nil
         THEN Outcome(st, gen, <<>>, -1, <<>>, BadRequest, h.err, <<>>)
         ELSE LET r == UpdateOne(st, up, h.id, contact) IN
              IF r.err # nil
              THEN Outcome(st, gen, <<>>, -1, <<>>, InternalServerError, r.err,
                           <<"update">>)
              ELSE Outcome(r.store, gen, <<>>, r.modifiedCount, <<>>, NoKind,
                           nil, <<"update">>)

\* InsertedID is the ObjectID of the document, so the branch for an
\* identifier of another type is never taken
AddContact_InsertFirst(st, gen, up, contact) ==
    LET r == InsertOne(st, gen, up, contact) IN
    IF validateContact(contact) # nil
    THEN Outcome(r.store, r.generated, <<>>, 0, <<>>, BadRequest,
                 validateContact(contact), <<"insert">>)
    ELSE IF r.err # nil
    THEN Outcome(st, r.generated, <<>>, 0, <<>>, InternalServerError, r.err,
                 <<"insert">>)
    ELSE Outcome(r.store, r.generated, <<>>, 0, InsertedMessage(r.insertedID),
                 NoKind, nil, <<"insert">>)

AddContact(st, gen, up, contact) ==
    LET err == validateContact(contact) IN
    IF err # nil
    THEN Outcome(st, gen, <<>>, 0, <<>>, BadRequest, err, <<>>)
    ELSE LET r == InsertOne(st, gen, up, contact) IN
         IF r.err # nil
         THEN Outcome(st, r.generated, <<>>, 0, <<>>, InternalServerError,
                      r.err, <<"insert">>)
         ELSE Outcome(r.store, r.generated, <<>>, 0,
                      InsertedMessage(r.insertedID), NoKind, nil, <<"insert">>)

(***************************************************************************)
(* Bounds and the requests the clients send                                *)
(***************************************************************************)
MaxStore == 2

MaxGenerated == MaxStore + 1

MaxDocs == 12

\* envDefault of config.Static.LimitPerPage
LimitPerPageDefault == 10

Contact(id, first, lastName, phone, address) ==
    [ID |-> id, FirstName |-> first, LastName |-> lastName, Phone |-> phone,
     Address |-> address]

sAl == <<"A","l">>

sBo == <<"B","o">>

sCy == <<"C","y">>

s05 == <<"0","5">>

sTA == <<"T"," ","A">>

\* the bodies of POST /contact
AddInputs ==
    { Contact(NilObjectID, sAl, sBo, s05, sTA),
      Contact(NilObjectID, sAl, <<>>, s05, <<>>),
      Contact(ClientObjectID, sAl, sBo, s05, sTA),
      Contact(NilObjectID, sAl, <<>>, <<>>, <<>>) }

\* the bodies of PUT /contact/edit/{id}
UpdateInputs ==
    { ZeroContact,
      Contact(NilObjectID, sCy, <<>>, <<>>, <<>>),
      Contact(NilObjectID, <<>>, <<>>, <<"5","x">>, <<>>),
      Contact(NilObjectID, <<>>, sBo, <<>>, sTA),
      Contact(ClientObjectID, sCy, <<>>, <<>>, <<>>) }

\* every combination of an absent, a well-formed and an ill-formed field
RichContacts ==
    { Contact(id, f, l, p, a) :
        id \in {NilObjectID, ClientObjectID},
        f \in {<<>>, sAl, <<"a","l","7">>, <<"7">>},
        l \in {<<>>, sBo, <<"B","-","o">>},
        p \in {<<>>, s05, <<"0","x","5">>, <<"x">>},
        a \in {<<>>, sTA} }

ToUpper(s) ==
    [i \in 1..Len(s) |->
        IF fromHexChar(s[i]) >= 10 THEN UpperHexChars[fromHexChar(s[i]) + 1]
        ELSE s[i]]

sShortID == <<"1","2","3","4","5","6","7">>

sNotHexID == [i \in 1..HexLen |-> IF i = HexLen THEN "g" ELSE "1"]

\* the {id} of a path: none, malformed ones, the identifier of no stored
\* contact and the identifiers of the stored contacts
IdParams(st) ==
    {<<>>, sShortID, sNotHexID, Hex(ClientObjectID)}
        \cup {Hex(st[i]._id) : i \in 1..Len(st)}
        \cup {ToUpper(Hex(st[i]._id)) : i \in 1..Min(1, Len(st))}

\* the values of ?page=
PageParams ==
    { <<>>, << <<>> >>, << <<"0">> >>, << <<"1">> >>, << <<"2">> >>,
      << <<"a">> >>, << <<"-","1">> >> }

PageParamsWide ==
    PageParams \cup
    { << <<"3">> >>, << <<"4">> >>, << <<"1","3">> >>, << <<"0","0">> >>,
      << <<"+","1">> >>, << <<"0","2">> >>, << <<"1","a">> >>,
      << <<"2">>, <<"1">> >>, << <<>>, <<"2">> >> }

Query1(k, v) == [x \in {k} |-> v]

Query2(k1, v1, k2, v2) == [x \in {k1, k2} |-> IF x = k1 THEN v1 ELSE v2]

\* the query strings of GET /contact/search
Queries ==
    { <<>>,
      Query1(kFirstName, <<sAl>>),
      Query1(kLastName, <<sBo, sCy>>),
      Query1(kLastName, << <<>> >>),
      Query2(kFirstName, <<sCy>>, kPhone, <<s05>>),
      Query2(kFirstName, <<sAl>>, kAddress, <<sTA>>),
      Query1(kId, <<Hex(NewObjectID(1))>>),
      Query1(<<"n","i","c","k">>, <<sAl>>),
      Query1(kComment, <<sAl>>),
      Query1(kOr, <<sAl>>) }

\* the collection after n contacts were added
PageContact(i) ==
    Contact(NilObjectID, IF i % 2 = 1 THEN sAl ELSE sCy,
            IF i % 3 = 0 THEN <<>> ELSE sBo, s05, sTA)

PageStore(n) == [i \in 1..n |-> Marshal(PageContact(i), NewObjectID(i))]

(***************************************************************************)
(* The state machine: one action per repository call.  Requests are served *)
(* one after the other; last holds the call being answered.                *)
(***************************************************************************)
\* no request: the value of last.request for a call that no handler made
NoRequest ==
    [handler |-> "none", body |-> [json |-> "empty", contact |-> ZeroContact]]

NoCall ==
    [op |-> "none", idParam |-> <<>>, contact |-> ZeroContact,
     pageParam |-> <<>>, query |-> <<>>, before |-> <<>>, contacts |-> <<>>,
     count |-> 0, msg |-> <<>>, kind |-> NoKind, err |-> nil, cmds |-> <<>>,
     request |-> NoRequest]

Record(op, idParam, contact, pageParam, query, out) ==
    [op |-> op, idParam |-> idParam, contact |-> contact,
     pageParam |-> pageParam, query |-> query, before |-> store,
     contacts |-> out.contacts, count |-> out.count, msg |-> out.msg,
     kind |-> out.kind, err |-> out.err, cmds |-> out.cmds,
     request |-> NoRequest]

Init ==
    /\ store = <<>>
    /\ generated = 0
    /\ dbUp = TRUE
    /\ limitPerPage = LimitPerPageDefault
    /\ last = NoCall
    /\ inflight = <<>>

CallGetContactWithPagination(pageParam) ==
    LET out == GetContactWithPagination(store, generated, dbUp, limitPerPage,
                                        pageParam) IN
    /\ last.op = "none"
    /\ store' = out.store
    /\ generated' = out.generated
    /\ last' = Record("GetContactWithPagination", <<>>, ZeroContact, pageParam,
                      <<>>, out)
    /\ UNCHANGED <<dbUp, limitPerPage, inflight>>

CallSearchContact(query) ==
    LET out == SearchContact(store, generated, dbUp, limitPerPage, query) IN
    /\ last.op = "none"
    /\ store' = out.store
    /\ generated' = out.generated
    /\ last' = Record("SearchContact", <<>>, ZeroContact, <<>>, query, out)
    /\ UNCHANGED <<dbUp, limitPerPage, inflight>>

CallAddContact(contact) ==
    LET out == AddContact(store, generated, dbUp, contact) IN
    /\ last.op = "none"
    /\ \/ validateContact(contact) # nil
       \/ /\ Len(store) < MaxStore
          /\ contact.ID # NilObjectID \/ generated < MaxGenerated
    /\ store' = out.store
    /\ generated' = out.generated
    /\ last' = Record("AddContact", <<>>, contact, <<>>, <<>>, out)
    /\ UNCHANGED <<dbUp, limitPerPage, inflight>>

CallUpdateContact(idParam, contact) ==
    LET out == UpdateContact(store, generated, dbUp, idParam, contact) IN
    /\ last.op = "none"
    /\ store' = out.store
    /\ generated' = out.generated
    /\ last' = Record("UpdateContact", idParam, contact, <<>>, <<>>, out)
    /\ UNCHANGED <<dbUp, limitPerPage, inflight>>

CallDeleteContact(idParam) ==
    LET out == DeleteContact(store, generated, dbUp, idParam) IN
    /\ last.op = "none"
    /\ store' = out.store
    /\ generated' = out.generated
    /\ last' = Record("DeleteContact", idParam, ZeroContact, <<>>, <<>>, out)
    /\ UNCHANGED <<dbUp, limitPerPage, inflight>>

\* the handler writes the response: the request is over, the next one is served
Respond ==
    /\ last.op # "none"
    /\ last' = NoCall
    /\ UNCHANGED <<store, generated, dbUp, limitPerPage, inflight>>

Next ==
    \/ \E pageParam \in PageParams : CallGetContactWithPagination(pageParam)
    \/ \E query \in Queries : CallSearchContact(query)
    \/ \E contact \in AddInputs : CallAddContact(contact)
    \/ \E idParam \in IdParams(store), contact \in UpdateInputs :
           CallUpdateContact(idParam, contact)
    \/ \E idParam \in IdParams(store) : CallDeleteContact(idParam)
    \/ Respond

Spec == Init /\ [][Next]_vars

\* the database becomes unreachable, or reachable again, between two requests
DbOutage ==
    /\ last.op = "none"
    /\ dbUp' = ~dbUp
    /\ UNCHANGED <<store, generated, limitPerPage, last, inflight>>

NextOutage == Next \/ DbOutage

SpecOutage == Init /\ [][NextOutage]_vars

\* AddContact alone, with every combination of field shapes
NextAdd ==
    \/ \E contact \in RichContacts : CallAddContact(contact)
    \/ Respond

SpecAdd == Init /\ [][NextAdd]_vars

\* the reads over a collection of up to MaxDocs contacts, for every page size
\* up to the default
InitPage ==
    /\ \E n \in 0..MaxDocs : store = PageStore(n) /\ generated = n
    /\ dbUp = TRUE
    /\ limitPerPage \in 1..LimitPerPageDefault
    /\ last = NoCall
    /\ inflight = <<>>

NextPage ==
    \/ \E pageParam \in PageParamsWide : CallGetContactWithPagination(pageParam)
    \/ \E query \in Queries : CallSearchContact(query)
    \/ Respond

SpecPage == InitPage /\ [][NextPage]_vars

\* ---------------------------------------------------------------------
\* The handlers of the write paths. A request body is what the JSON decoder
\* makes of it: nothing to decode (json "empty"), the literal null (a nil
\* contact) or an object (the contact holding its members).
ErrEOF == "EOF"
ErrTooBigContactField == "too big contact field"

MaxSizeProperty == 100

\* *definition.Contact: <<>> is nil, <<c>> points to c
validateContactSizeInput_Strict(contact) ==
    IF contact = <<>> THEN FALSE
    ELSE /\ Len(contact[1].FirstName) < MaxSizeProperty
         /\ Len(contact[1].LastName) < MaxSizeProperty
         /\ Len(contact[1].Phone) < MaxSizeProperty
         /\ Len(contact[1].Address) < MaxSizeProperty

validateContactSizeInput(contact) ==
    IF contact = <<>> THEN FALSE
    ELSE /\ Len(contact[1].FirstName) <= MaxSizeProperty
         /\ Len(contact[1].LastName) <= MaxSizeProperty
         /\ Len(contact[1].Phone) <= MaxSizeProperty
         /\ Len(contact[1].Address) <= MaxSizeProperty

decodeContact(r) ==
    IF r.json = "empty" THEN [contact |-> <<>>, err |-> ErrEOF]
    ELSE LET contact == IF r.json = "null" THEN <<>> ELSE <<r.contact>> IN
         IF ~validateContactSizeInput(contact)
         THEN [contact |-> <<>>, err |-> ErrTooBigContactField]
         ELSE [contact |-> contact, err |-> nil]

\* the request ends in decodeContact: the repository is not called
Rejected(handler, r, err) ==
    [NoCall EXCEPT !.op = "decodeContact", !.before = store, !.err = err,
                   !.request = [handler |-> handler, body |-> r]]

HttpAddContact(r) ==
    LET d == decodeContact(r) IN
    /\ last.op = "none"
    /\ IF d.err # nil
       THEN /\ last' = Rejected("AddContact", r, d.err)
            /\ UNCHANGED <<store, generated>>
       ELSE LET contact == d.contact[1]
                out == AddContact(store, generated, dbUp, contact)
            IN  /\ \/ validateContact(contact) # nil
                   \/ /\ Len(store) < MaxStore
                      /\ generated < MaxGenerated
                /\ store' = out.store
                /\ generated' = out.generated
                /\ last' = [Record("AddContact", <<>>, contact, <<>>, <<>>,
                                   out)
                              EXCEPT !.request = [handler |-> "AddContact",
                                                  body |-> r]]
    /\ UNCHANGED <<dbUp, limitPerPage, inflight>>

HttpUpdateContact(idParam, r) ==
    LET d == decodeContact(r) IN
    /\ last.op = "none"
    /\ IF d.err # nil
       THEN /\ last' = Rejected("UpdateContact", r, d.err)
            /\ UNCHANGED <<store, generated>>
       ELSE LET updatedContact == d.contact[1]
                out == UpdateContact(store, generated, dbUp, idParam,
                                     updatedContact)
            IN  /\ store' = out.store
                /\ generated' = out.generated
                /\ last' = [Record("UpdateContact", idParam, updatedContact,
                                   <<>>, <<>>, out)
                              EXCEPT !.request = [handler |-> "UpdateContact",
                                                  body |-> r]]
    /\ UNCHANGED <<dbUp, limitPerPage, inflight>>

Repeat(c, n) == [i \in 1..n |-> c]

SizedContact(first, lastName, phone, address) ==
    Contact(NilObjectID, Repeat("a", first), Repeat("b", lastName),
            Repeat("5", phone), Repeat("t", address))

Object(contact) == [json |-> "object", contact |-> contact]

\* request bodies: none, null, and objects whose members are absent, short,
\* one under the maximal size, of the maximal size and one over it
Bodies ==
    {[json |-> "empty", contact |-> ZeroContact],
     [json |-> "null", contact |-> ZeroContact],
     Object(ZeroContact),
     Object(Contact(NilObjectID, sAl, <<>>, s05, <<>>)),
     Object(SizedContact(0, MaxSizeProperty + 1, 0, 0)),
     Object(SizedContact(MaxSizeProperty - 1, 0, 1, 0))}
    \cup {Object(SizedContact(a, b, c, d)) :
              a \in {MaxSizeProperty, MaxSizeProperty + 1},
              b \in {MaxSizeProperty, MaxSizeProperty + 1},
              c \in {MaxSizeProperty, MaxSizeProperty + 1},
              d \in {MaxSizeProperty, MaxSizeProperty + 1}}

NextHandler ==
    \/ \E r \in Bodies : HttpAddContact(r)
    \/ \E idParam \in IdParams(store), r \in Bodies :
           HttpUpdateContact(idParam, r)
    \/ Respond

SpecHandler == Init /\ [][NextHandler]_vars

\* ---------------------------------------------------------------------
\* Requests served at the same time: net/http runs every handler in a
\* goroutine of its own, the goroutines share the collection handle only,
\* and the database applies the update of one document atomically.
\* inflight[r] is the UpdateContact handler r: its body is decoded, then its
\* UpdateOne is applied, then its response is written.
MaxRequests == 2

s07 == <<"0","7">>

ConcurrentStore ==
    <<Marshal(Contact(NilObjectID, sAl, sBo, s05, sTA), NewObjectID(1)),
      Marshal(Contact(NilObjectID, sAl, sBo, s05, sTA), NewObjectID(2))>>

\* partial contacts: two with no field in common, two that share fields
\* with them
ConcurrentInputs ==
    {Contact(NilObjectID, sCy, <<>>, <<>>, <<>>),
     Contact(NilObjectID, <<>>, sCy, <<>>, sAl),
     Contact(NilObjectID, sBo, <<>>, s07, <<>>),
     Contact(NilObjectID, sBo, sAl, <<>>, <<>>)}

Decoded(idParam, updatedContact) ==
    [pc |-> "decoded", idParam |-> idParam, contact |-> updatedContact,
     count |-> 0, err |-> nil, response |-> <<>>]

InitConcurrent ==
    /\ store = ConcurrentStore
    /\ generated = Len(ConcurrentStore)
    /\ dbUp = TRUE
    /\ limitPerPage = LimitPerPageDefault
    /\ last = NoCall
    /\ inflight \in [1..MaxRequests ->
                        {Decoded(Hex(ConcurrentStore[i]._id), contact) :
                             i \in 1..Len(ConcurrentStore),
                             contact \in ConcurrentInputs}]

\* handler r calls the repository
CallUpdate(r) ==
    LET out == UpdateContact(store, generated, dbUp, inflight[r].idParam,
                             inflight[r].contact) IN
    /\ inflight[r].pc = "decoded"
    /\ store' = out.store
    /\ inflight' = [inflight EXCEPT ![r].pc = "called",
                                    ![r].count = out.count,
                                    ![r].err = out.err]
    /\ UNCHANGED <<generated, dbUp, limitPerPage, last>>

\* handler r writes its response
WriteResponse(r) ==
    /\ inflight[r].pc = "called"
    /\ inflight' =
           [inflight EXCEPT
               ![r].pc = "written",
               ![r].response =
                   IF inflight[r].err # nil THEN <<inflight[r].err>>
                   ELSE IF inflight[r].count = 0
                        THEN <<"not found document to edit">>
                   ELSE <<"edited ">> \o Itoa(inflight[r].count)
                            \o <<" document successfully">>]
    /\ UNCHANGED <<store, generated, dbUp, limitPerPage, last>>

NextConcurrent ==
    \/ \E r \in 1..MaxRequests : CallUpdate(r)
    \/ \E r \in 1..MaxRequests : WriteResponse(r)

SpecConcurrent == InitConcurrent /\ [][NextConcurrent]_vars

(***************************************************************************)
(* Properties                                                              *)
(***************************************************************************)
Letters == LowerLetters \cup UpperLetters

LettersOnly(s) == s # <<>> /\ Range(s) \subseteq Letters

DigitsOnly(s) == s # <<>> /\ Range(s) \subseteq Digits

FieldKeys == {kFirstName, kLastName, kPhone, kAddress}

ContactField(contact, key) ==
    IF key = kFirstName THEN contact.FirstName
    ELSE IF key = kLastName THEN contact.LastName
    ELSE IF key = kPhone THEN contact.Phone
    ELSE contact.Address

\* the five checks of the validator, in the order the specification gives
Checks(contact) ==
    << [fails |-> contact.FirstName = <<>>, err |-> ErrorMissingFirstName],
       [fails |-> ~(Range(contact.FirstName) \subseteq Letters),
        err   |-> ErrorInvalidFirstName],
       [fails |-> contact.LastName # <<>>
                  /\ ~(Range(contact.LastName) \subseteq Letters),
        err   |-> ErrorInvalidLastName],
       [fails |-> contact.Phone = <<>>, err |-> ErrorMissingPhone],
       [fails |-> ~(Range(contact.Phone) \subseteq Digits),
        err   |-> ErrorInvalidPhone] >>

FirstFailure(contact) ==
    LET failing == {i \in 1..5 : Checks(contact)[i].fails} IN
    IF failing = {} THEN nil
    ELSE Checks(contact)[CHOOSE i \in failing : \A j \in failing : i <= j].err

ValidationErrors ==
    {ErrorMissingFirstName, ErrorInvalidFirstName, ErrorInvalidLastName,
     ErrorMissingPhone, ErrorInvalidPhone}

\* C1: every stored contact has a non-empty letters-only first name and a
\* non-empty digits-only phone, after any sequence of AddContact,
\* UpdateContact and DeleteContact calls.
C1_StoredContactsValid ==
    \A i \in 1..Len(store) :
        LettersOnly(store[i].firstName) /\ DigitsOnly(store[i].phone)

\* C2: AddContact answers a contact with the error of the first of the five
\* checks (MissingFirstName, InvalidFirstName, InvalidLastName, MissingPhone,
\* InvalidPhone) that fails and with no validation error when none fails; an
\* empty first name always gives MissingFirstName.
C2_ValidationOrder ==
    last.op = "AddContact" =>
        /\ FirstFailure(last.contact) # nil =>
               last.err = FirstFailure(last.contact)
        /\ FirstFailure(last.contact) = nil => last.err \notin ValidationErrors
        /\ last.contact.FirstName = <<>> => last.err = ErrorMissingFirstName

C2_Witness ==
    /\ last.op = "AddContact"
    /\ LettersOnly(last.contact.FirstName)
    /\ last.contact.LastName # <<>> /\ ~LettersOnly(last.contact.LastName)
    /\ last.contact.Phone # <<>> /\ ~DigitsOnly(last.contact.Phone)
    /\ last.err = ErrorInvalidLastName

HasNonDigit(s) == \E i \in 1..Len(s) : s[i] \notin Digits

\* C3 as stated: AddContact fails with InvalidPhone for any contact whose
\* phone contains a non-digit character.
C3_AnyContactInvalidPhone ==
    last.op = "AddContact" /\ HasNonDigit(last.contact.Phone) =>
        last.err = ErrorInvalidPhone

\* C3: AddContact fails with InvalidPhone (BadRequest) for any contact whose
\* phone contains a non-digit character, provided its first name is
\* non-empty letters-only and its last name is empty or letters-only.
C3_InvalidPhone ==
    /\ last.op = "AddContact"
    /\ HasNonDigit(last.contact.Phone)
    /\ LettersOnly(last.contact.FirstName)
    /\ last.contact.LastName = <<>> \/ LettersOnly(last.contact.LastName)
    => last.err = ErrorInvalidPhone /\ last.kind = BadRequest

C3_Witness ==
    /\ last.op = "AddContact"
    /\ last.contact.Phone = <<"0","x","5">>
    /\ LettersOnly(last.contact.FirstName)
    /\ LettersOnly(last.contact.LastName)
    /\ last.err = ErrorInvalidPhone

\* C4: when validation of the contact fails, AddContact returns an empty
\* message, error kind BadRequest and the validation error, sends no insert
\* and leaves the stored contacts unchanged.
C4_ValidateBeforeInsert ==
    last.op = "AddContact" /\ FirstFailure(last.contact) # nil =>
        /\ last.msg = <<>>
        /\ last.kind = BadRequest
        /\ last.err = FirstFailure(last.contact)
        /\ last.cmds = <<>>
        /\ store = last.before

C4_Witness ==
    /\ last.op = "AddContact"
    /\ FirstFailure(last.contact) # nil
    /\ last.before # <<>>
    /\ last.contact.ID # NilObjectID
    /\ last.kind = BadRequest

IsHexString(s) ==
    Len(s) = HexLen /\ \A i \in 1..Len(s) : \E v \in 1..16 : HexChars[v] = s[i]

\* the identifier the message of a successful AddContact carries
MessageID(msg) == SubSeq(msg, Len(InsertedPrefix) + 1, Len(msg))

ProbeContact == Contact(NilObjectID, <<"Z","e","d">>, <<>>, <<>>, <<>>)

\* C5: a successful AddContact appends exactly one contact with the supplied
\* first name, last name, phone and address, keeps every earlier contact, and
\* returns with empty error kind a message carrying the 24-hex-character
\* identifier of the new contact; that identifier selects exactly the new
\* contact in UpdateContact and DeleteContact.
C5_AddContactInserts ==
    last.op = "AddContact" /\ last.err = nil =>
        LET n   == Len(store)
            ids == MessageID(last.msg)
        IN  /\ n = Len(last.before) + 1
            /\ SubSeq(store, 1, n - 1) = last.before
            /\ \A k \in FieldKeys :
                   ContactField(Decode(store[n]), k) = ContactField(last.contact, k)
            /\ last.kind = NoKind
            /\ SubSeq(last.msg, 1, Len(InsertedPrefix)) = InsertedPrefix
            /\ IsHexString(ids)
            /\ ids = Hex(store[n]._id)
            /\ {i \in 1..n : Hex(store[i]._id) = ids} = {n}
            /\ DeleteContact(store, generated, dbUp, ids).count = 1
            /\ DeleteContact(store, generated, dbUp, ids).store = last.before
            /\ UpdateContact(store, generated, dbUp, ids, ProbeContact).store
                   = [store EXCEPT ![n].firstName = ProbeContact.FirstName]

C5_Witness ==
    /\ last.op = "AddContact"
    /\ last.err = nil
    /\ Len(last.before) = 1
    /\ Len(store) = 2
    /\ last.contact.LastName = <<>>

ExistingTarget ==
    /\ last.op = "UpdateContact"
    /\ ObjectIDFromHex(last.idParam).err = nil
    /\ IndexOf(last.before, ObjectIDFromHex(last.idParam).id) # 0

\* the stored contacts after the partial contact overwrote, in the contact
\* at position i, exactly its non-empty fields
OverwrittenAt(i) ==
    /\ Len(store) = Len(last.before)
    /\ \A j \in 1..Len(store) : j # i => store[j] = last.before[j]
    /\ store[i]._id = last.before[i]._id
    /\ \A k \in FieldKeys :
           DocField(store[i], k) =
               IF ContactField(last.contact, k) # <<>>
               THEN ContactField(last.contact, k)
               ELSE DocField(last.before[i], k)

DenotesPage(pageParam) ==
    \/ Len(pageParam) = 0
    \/ pageParam[1] = <<>>
    \/ Atoi(pageParam[1]).err = nil /\ Atoi(pageParam[1]).n >= 1

PageOf(pageParam) ==
    IF Len(pageParam) = 0 \/ pageParam[1] = <<>> THEN 1
    ELSE Atoi(pageParam[1]).n

\* C7: GetContactWithPagination for page p of n stored contacts with page
\* size L returns, with no error, exactly the contacts at positions
\* (p-1)*L+1 .. min(p*L, n) of the collection: at most L, exactly 2 for page 2
\* of 12 contacts with L = 10, and none when (p-1)*L >= n.
C7_PageWindow ==
    last.op = "GetContactWithPagination" /\ DenotesPage(last.pageParam) =>
        LET p  == PageOf(last.pageParam)
            n  == Len(store)
            L  == limitPerPage
            lo == (p - 1) * L
            hi == Min(p * L, n)
        IN  /\ last.err = nil
            /\ last.kind = NoKind
            /\ Len(last.contacts) = (IF hi > lo THEN hi - lo ELSE 0)
            /\ \A j \in 1..Len(last.contacts) :
                   last.contacts[j] = Decode(store[lo + j])
            /\ Len(last.contacts) <= L
            /\ n = 12 /\ L = 10 /\ p = 2 => Len(last.contacts) = 2
            /\ lo >= n => Len(last.contacts) = 0

C7_Witness ==
    /\ last.op = "GetContactWithPagination"
    /\ last.pageParam = << <<"2">> >>
    /\ Len(store) = 12
    /\ limitPerPage = 10
    /\ Len(last.contacts) = 2
    /\ last.contacts[1] = Decode(store[11])

\* a page value that is not a number: it holds a character that is neither a
\* digit nor a sign
NonNumeric(s) == \E i \in 1..Len(s) : s[i] \notin Digits \cup {"+", "-"}

\* C8: GetContactWithPagination with page value "0" or a non-numeric page
\* value returns an error with error kind BadRequest and no contacts, and
\* sends no query to the database.
C8_InvalidPageRejected ==
    /\ last.op = "GetContactWithPagination"
    /\ Len(last.pageParam) >= 1
    /\ last.pageParam[1] = <<"0">> \/ NonNumeric(last.pageParam[1])
    => /\ last.err # nil
       /\ last.kind = BadRequest
       /\ Len(last.contacts) = 0
       /\ last.cmds = <<>>

C8_Witness ==
    /\ last.op = "GetContactWithPagination"
    /\ last.pageParam = << <<"0">> >>
    /\ Len(store) > 0
    /\ last.err = ErrPageNotPositive

C8_WitnessNonNumeric ==
    /\ last.op = "GetContactWithPagination"
    /\ last.pageParam = << <<"1","a">> >>
    /\ Len(store) > 0
    /\ last.kind = BadRequest

\* a stored document has, under every key of the query, the first value the
\* query gives for that key
ExactMatch(doc, query) ==
    \A k \in DOMAIN query :
        DocField(doc, k) # <<>> /\ DocField(doc, k) = query[k][1]

RECURSIVE ExactMatches(_, _)
ExactMatches(st, query) ==
    IF st = <<>> THEN <<>>
    ELSE (IF ExactMatch(Head(st), query) THEN <<Decode(Head(st))>> ELSE <<>>)
             \o ExactMatches(Tail(st), query)

\* C9: SearchContact with at least one query parameter returns, with no
\* error, exactly the stored contacts whose field equals the given value for
\* every provided key (the first value of a repeated key), with all their
\* fields, and an empty sequence when no stored contact matches.
C9_SearchExactMatch ==
    last.op = "SearchContact" /\ DOMAIN last.query # {} =>
        /\ last.err = nil
        /\ last.kind = NoKind
        /\ Len(last.contacts) = Len(ExactMatches(store, last.query))
        /\ \A j \in 1..Len(last.contacts) :
               last.contacts[j] = ExactMatches(store, last.query)[j]

\* C9 for the keys that are not query operators
C9_SearchFieldKeys ==
    /\ last.op = "SearchContact"
    /\ DOMAIN last.query # {}
    /\ \A k \in DOMAIN last.query : ~IsOperatorKey(k)
    => /\ last.err = nil
       /\ Len(last.contacts) = Len(ExactMatches(store, last.query))
       /\ \A j \in 1..Len(last.contacts) :
              last.contacts[j] = ExactMatches(store, last.query)[j]

ByID == {"UpdateContact", "DeleteContact"}

\* the identifier of the path is well formed: 24 hex characters
WellFormedID(idParam) ==
    /\ Len(idParam) = HexLen
    /\ \A i \in 1..Len(idParam) :
           \E v \in 1..16 : idParam[i] \in {HexChars[v], UpperHexChars[v]}

\* the positions in st of the contacts whose identifier is written idParam
Holders(st, idParam) ==
    {i \in 1..Len(st) : ToUpper(Hex(st[i]._id)) = ToUpper(idParam)}

HasID(contacts, idParam) ==
    \E j \in 1..Len(contacts) : ToUpper(Hex(contacts[j].ID)) = ToUpper(idParam)

\* C11: DeleteContact with the identifier of a stored contact removes exactly
\* that contact, returns 1 with empty error kind and no error and leaves the
\* other contacts as they were; no read returns the contact afterwards and a
\* second DeleteContact with the same identifier returns 0.
C11_DeleteRemovesContact ==
    /\ last.op = "DeleteContact"
    /\ WellFormedID(last.idParam)
    /\ Holders(last.before, last.idParam) # {}
    => LET i == CHOOSE x \in Holders(last.before, last.idParam) : TRUE IN
       /\ last.count = 1 /\ last.kind = NoKind /\ last.err = nil
       /\ store = SubSeq(last.before, 1, i - 1)
                      \o SubSeq(last.before, i + 1, Len(last.before))
       /\ Holders(store, last.idParam) = {}
       /\ \A pageParam \in PageParamsWide :
              ~HasID(GetContactWithPagination(store, generated, dbUp,
                         limitPerPage, pageParam).contacts, last.idParam)
       /\ \A query \in Queries :
              ~HasID(SearchContact(store, generated, dbUp, limitPerPage,
                                   query).contacts, last.idParam)
       /\ DeleteContact(store, generated, dbUp, last.idParam).count = 0
       /\ DeleteContact(store, generated, dbUp, last.idParam).err = nil

C11_Witness ==
    /\ last.op = "DeleteContact"
    /\ Len(last.before) = 2
    /\ Holders(last.before, last.idParam) = {2}
    /\ Len(store) = 1
    /\ last.count = 1

\* C12: UpdateContact and DeleteContact with a well-formed identifier that no
\* stored contact has return 0 with empty error kind and no error, and leave
\* the stored contacts unchanged.
C12_UnknownIDIsZero ==
    /\ last.op \in ByID
    /\ WellFormedID(last.idParam)
    /\ Holders(last.before, last.idParam) = {}
    => /\ last.count = 0
       /\ last.kind = NoKind
       /\ last.err = nil
       /\ store = last.before

C12_Witness ==
    /\ last.op = "UpdateContact"
    /\ WellFormedID(last.idParam)
    /\ Holders(last.before, last.idParam) = {}
    /\ last.before # <<>>
    /\ last.contact.FirstName # <<>>
    /\ last.count = 0

C12_WitnessDelete ==
    /\ last.op = "DeleteContact"
    /\ WellFormedID(last.idParam)
    /\ Holders(last.before, last.idParam) = {}
    /\ last.before # <<>>
    /\ last.count = 0

\* C13: UpdateContact and DeleteContact with an empty identifier fail with
\* the MissingID error and error kind BadRequest, return 0, send nothing to
\* the database and leave the stored contacts unchanged.
C13_EmptyIDIsMissingID ==
    last.op \in ByID /\ last.idParam = <<>> =>
        /\ last.err = ErrorMissingID
        /\ last.kind = BadRequest
        /\ last.count = 0
        /\ last.cmds = <<>>
        /\ store = last.before

C13_Witness ==
    /\ last.op = "UpdateContact"
    /\ last.idParam = <<>>
    /\ last.before # <<>>
    /\ last.contact.FirstName # <<>>
    /\ last.err = ErrorMissingID

C13_WitnessDelete ==
    /\ last.op = "DeleteContact"
    /\ last.idParam = <<>>
    /\ last.before # <<>>
    /\ last.err = ErrorMissingID

\* C14: UpdateContact and DeleteContact with a non-empty identifier that is
\* not a 24-hex-character string fail with error kind BadRequest and count
\* -1, send nothing to the database and leave the stored contacts unchanged;
\* when the length is not 24 the error is "the provided hex string is not a
\* valid ObjectID".
C14_MalformedIDRejected ==
    last.op \in ByID /\ last.idParam # <<>> /\ ~WellFormedID(last.idParam) =>
        /\ last.err # nil
        /\ last.kind = BadRequest
        /\ last.count = -1
        /\ last.cmds = <<>>
        /\ store = last.before
        /\ Len(last.idParam) # 24 =>
               last.err = "the provided hex string is not a valid ObjectID"

C14_Witness ==
    /\ last.op = "DeleteContact"
    /\ last.idParam = sShortID
    /\ last.before # <<>>
    /\ last.count = -1

C14_WitnessNotHex ==
    /\ last.op = "UpdateContact"
    /\ Len(last.idParam) = 24
    /\ ~WellFormedID(last.idParam)
    /\ last.before # <<>>
    /\ last.count = -1
    /\ last.err = ErrHexInvalidByte

\* C15: every error that client input causes (a malformed identifier, an
\* invalid page value, a contact that fails validation) has error kind
\* BadRequest; InternalServerError is returned only when the database fails
\* for a reason other than the input, which never happens while the database
\* is reachable.
C15_ClientErrorsAreBadRequest ==
    last.op # "none" /\ last.err # nil /\ dbUp => last.kind = BadRequest

\* the part of C15 the code keeps: what it rejects before it contacts the
\* database is a BadRequest
C15_RejectedInputIsBadRequest ==
    last.op # "none" /\ last.err # nil /\ last.cmds = <<>> =>
        last.kind = BadRequest

C15_Witness ==
    /\ last.op = "GetContactWithPagination"
    /\ last.pageParam = << <<"-", "1">> >>
    /\ dbUp
    /\ last.kind = InternalServerError

C15_WitnessDuplicate ==
    /\ last.op = "AddContact"
    /\ dbUp
    /\ last.err = ErrDuplicateKey
    /\ last.kind = InternalServerError

C15_WitnessOtherID ==
    /\ last.op = "UpdateContact"
    /\ dbUp
    /\ last.err = ErrImmutableField
    /\ last.kind = InternalServerError

RepositoryOps ==
    {"GetContactWithPagination", "SearchContact", "AddContact",
     "UpdateContact", "DeleteContact"}

\* C16: whatever the repository operation and its outcome, the error kind
\* returned is the empty string exactly when the error returned is nil, and
\* BadRequest or InternalServerError otherwise; an update or a delete that
\* the database ran and that affected no row is a success, with the empty
\* error kind.
C16_KindIffError ==
    last.op \in RepositoryOps =>
        /\ last.kind = NoKind <=> last.err = nil
        /\ last.err # nil => last.kind \in {BadRequest, InternalServerError}
        /\ last.op \in ByID /\ last.cmds # <<>> /\ last.count = 0 =>
               last.err = nil /\ last.kind = NoKind
        /\ /\ last.op \in ByID
           /\ dbUp
           /\ WellFormedID(last.idParam)
           /\ Holders(last.before, last.idParam) = {}
           => last.count = 0 /\ last.err = nil

C16_Witness ==
    /\ last.op = "DeleteContact"
    /\ ~dbUp
    /\ Holders(last.before, last.idParam) # {}
    /\ last.kind = InternalServerError
    /\ last.err = ErrServerSelection
    /\ store = last.before

C16_WitnessZeroRows ==
    /\ last.op = "UpdateContact"
    /\ dbUp
    /\ Holders(last.before, last.idParam) # {}
    /\ last.contact = ZeroContact
    /\ last.count = 0
    /\ last.kind = NoKind

C16_WitnessBadRequest ==
    /\ last.op = "AddContact"
    /\ ~dbUp
    /\ last.kind = BadRequest
    /\ last.err = ErrorMissingPhone

\* C17: the identifier of a stored contact never changes: no operation, an
\* UpdateContact whose partial contact carries another identifier than the
\* path included, gives a contact that stays stored another identifier than
\* it had.
C17_IdentifierImmutable ==
    /\ last.op \in {"UpdateContact", "GetContactWithPagination",
                    "SearchContact"} =>
           /\ Len(store) = Len(last.before)
           /\ \A i \in 1..Len(store) : store[i]._id = last.before[i]._id
    /\ last.op = "AddContact" =>
           /\ Len(store) >= Len(last.before)
           /\ \A i \in 1..Len(last.before) : store[i]._id = last.before[i]._id
    /\ last.op = "DeleteContact" =>
           \/ store = last.before
           \/ \E k \in 1..Len(last.before) :
                  store = SubSeq(last.before, 1, k - 1)
                              \o SubSeq(last.before, k + 1, Len(last.before))

C17_Witness ==
    /\ last.op = "UpdateContact"
    /\ Holders(last.before, last.idParam) # {}
    /\ last.contact.ID # NilObjectID
    /\ Hex(last.contact.ID) # last.idParam
    /\ last.contact.FirstName # <<>>
    /\ store = last.before

C17_WitnessOwnID ==
    /\ last.op = "UpdateContact"
    /\ Holders(last.before, last.idParam) # {}
    /\ Hex(last.contact.ID) = last.idParam
    /\ last.count = 1

\* C18: GetContactWithPagination and SearchContact never mutate: whatever
\* the argument and whether the call succeeds or fails, the stored contacts
\* and all their fields are after the call what they were before it.
C18_ReadsDoNotMutate ==
    last.op \in {"GetContactWithPagination", "SearchContact"} =>
        store = last.before

C18_Witness ==
    /\ last.op = "SearchContact"
    /\ Len(last.contacts) = 1
    /\ Len(store) = 2
    /\ last.err = nil

C18_WitnessError ==
    /\ last.op = "GetContactWithPagination"
    /\ last.err # nil
    /\ Len(store) = 2

\* a page value that spells a number below 1
BelowOne(pageParam) ==
    /\ Len(pageParam) >= 1
    /\ pageParam[1] # <<>>
    /\ Atoi(pageParam[1]).err = nil
    /\ Atoi(pageParam[1]).n < 1

\* C20: whenever the parsing of the page value succeeds the page number is at
\* least 1, so no negative skip is sent to the database: a page value that
\* spells a number below 1, "-1" or "00" as well as "0", is rejected with
\* error kind BadRequest before the database is queried.
C20_PageAtLeastOne ==
    last.op = "GetContactWithPagination" =>
        /\ validatePageParam(last.pageParam).err = nil =>
               validatePageParam(last.pageParam).page >= 1
        /\ BelowOne(last.pageParam) =>
               /\ last.err # nil
               /\ last.kind = BadRequest
               /\ last.cmds = <<>>

C20_WitnessNegative ==
    /\ last.op = "GetContactWithPagination"
    /\ last.pageParam = << <<"-", "1">> >>
    /\ last.err = ErrNegativeSkip
    /\ last.cmds = <<"find">>

C20_WitnessDoubleZero ==
    /\ last.op = "GetContactWithPagination"
    /\ last.pageParam = << <<"0", "0">> >>
    /\ last.err = ErrNegativeSkip

\* what the size check is to accept: a contact, not nil, whose first name,
\* last name, phone and address are each at most the configured maximum long
WithinSize(r) ==
    /\ r.json = "object"
    /\ \A f \in {"FirstName", "LastName", "Phone", "Address"} :
           Len(r.contact[f]) <= MaxSizeProperty

\* the decoded contact of a body that holds JSON: nil for null
Pointer(r) == IF r.json = "null" THEN <<>> ELSE <<r.contact>>

\* C19: the field-size check accepts a decoded contact exactly when it is
\* not nil and its first name, last name, phone and address are each at most
\* the configured maximum long, the maximum itself included; it runs on the
\* add and on the update path before the repository is called, so a contact
\* with an oversized field never reaches AddContact or UpdateContact.
C19_SizeCheckedBeforeRepository ==
    /\ last.request.handler # "none" /\ last.request.body.json # "empty" =>
           /\ validateContactSizeInput(Pointer(last.request.body))
                  <=> WithinSize(last.request.body)
           /\ decodeContact(last.request.body).err = nil
                  <=> WithinSize(last.request.body)
           /\ last.op = last.request.handler
                  <=> WithinSize(last.request.body)
    /\ last.op = "decodeContact" =>
           /\ last.err # nil
           /\ last.cmds = <<>>
           /\ store = last.before
    /\ last.request.handler # "none" /\ last.op \in ByID \cup {"AddContact"} =>
           /\ last.contact = last.request.body.contact
           /\ Len(last.contact.FirstName) <= MaxSizeProperty
           /\ Len(last.contact.LastName) <= MaxSizeProperty
           /\ Len(last.contact.Phone) <= MaxSizeProperty
           /\ Len(last.contact.Address) <= MaxSizeProperty

C19_Witness ==
    /\ last.request.handler = "AddContact"
    /\ last.op = "AddContact"
    /\ Len(last.contact.FirstName) = MaxSizeProperty
    /\ Len(last.contact.LastName) = MaxSizeProperty
    /\ Len(last.contact.Phone) = MaxSizeProperty
    /\ Len(last.contact.Address) = MaxSizeProperty
    /\ last.err = nil
    /\ Len(store) = Len(last.before) + 1

C19_WitnessOversizedUpdate ==
    /\ last.request.handler = "UpdateContact"
    /\ last.op = "decodeContact"
    /\ Holders(store, last.idParam) = {}
    /\ Len(store) > 0
    /\ Len(last.request.body.contact.Address) = MaxSizeProperty + 1
    /\ Len(last.request.body.contact.Phone) = MaxSizeProperty
    /\ last.err = ErrTooBigContactField

C19_WitnessNil ==
    /\ last.request.handler = "AddContact"
    /\ last.request.body.json = "null"
    /\ last.op = "decodeContact"
    /\ last.err = ErrTooBigContactField

C19_WitnessUpdateAtMaximum ==
    /\ last.request.handler = "UpdateContact"
    /\ last.op = "UpdateContact"
    /\ Len(last.contact.Address) = MaxSizeProperty
    /\ last.count = 1

\* C21: UpdateContact returns a count of at least 1 whenever a contact with
\* the given identifier is stored, also when the supplied fields equal the
\* stored values, so that the count 0 (answered to the client as "not found
\* document to edit") is returned only when no stored contact has the
\* identifier.
C21_ZeroOnlyWhenNotStored ==
    ExistingTarget /\ last.err = nil => last.count >= 1

\* what the code does return for a stored contact: the number of documents
\* the update modified, 0 when it changed no field
C21_CountIsModifiedCount ==
    ExistingTarget /\ last.err = nil =>
        last.count = (IF store = last.before THEN 0 ELSE 1)

C21_WitnessSameValues ==
    /\ ExistingTarget
    /\ last.contact.FirstName # <<>>
    /\ last.err = nil
    /\ last.count = 0
    /\ store = last.before

C21_WitnessNoFields ==
    /\ ExistingTarget
    /\ last.contact = ZeroContact
    /\ last.err = nil
    /\ last.count = 0

\* ceil(n / L)
PageCount(n, L) == (n + L - 1) \div L

\* what GetContactWithPagination answers for page p of the stored contacts
PageResult(p) ==
    GetContactWithPagination(store, generated, dbUp, limitPerPage,
                             <<Itoa(p)>>)

\* C22: for n stored contacts that do not change between the calls and page
\* size L, the answers of GetContactWithPagination for the pages 1, 2, ...,
\* ceil(n/L) are pairwise disjoint, hold together every stored contact
\* exactly once, and every page before the last holds exactly L contacts.
C22_PagesPartition ==
    LET n == Len(store)
        L == limitPerPage
        P == PageCount(n, L)
    IN  /\ \A p \in 1..P : PageResult(p).err = nil
        /\ \A p \in 1..(P - 1) : Len(PageResult(p).contacts) = L
        /\ \A p \in 1..P : \A q \in 1..P :
               p # q =>
                   \A j \in 1..Len(PageResult(p).contacts) :
                   \A k \in 1..Len(PageResult(q).contacts) :
                       PageResult(p).contacts[j] # PageResult(q).contacts[k]
        /\ \A i \in 1..n :
               Cardinality({pj \in (1..P) \X (1..L) :
                               /\ pj[2] <= Len(PageResult(pj[1]).contacts)
                               /\ PageResult(pj[1]).contacts[pj[2]]
                                      = Decode(store[i])}) = 1
        /\ /\ last.op = "GetContactWithPagination"
           /\ DenotesPage(last.pageParam)
           /\ PageOf(last.pageParam) \in 1..P
           => /\ store = last.before
              /\ last.contacts = PageResult(PageOf(last.pageParam)).contacts

C22_Witness ==
    /\ last.op = "GetContactWithPagination"
    /\ last.pageParam = << <<"3">> >>
    /\ Len(store) = 12
    /\ limitPerPage = 5
    /\ Len(last.contacts) = 2
    /\ last.contacts[2] = Decode(store[12])

C22_WitnessFullLastPage ==
    /\ last.op = "GetContactWithPagination"
    /\ last.pageParam = << <<"4">> >>
    /\ Len(store) = 12
    /\ limitPerPage = 3
    /\ Len(last.contacts) = 3

\* the requests whose update of the contact at position i the database
\* applied and that supply field f
Suppliers(i, f) ==
    {r \in 1..Len(inflight) :
        /\ inflight[r].pc # "decoded"
        /\ inflight[r].idParam = Hex(ConcurrentStore[i]._id)
        /\ ContactField(inflight[r].contact, f) # <<>>}

\* the requests, applied or not, that aim at the contact at position i
Aiming(i) ==
    {r \in 1..Len(inflight) :
        inflight[r].idParam = Hex(ConcurrentStore[i]._id)}

AllCalled(R) == \A r \in R : inflight[r].pc # "decoded"

DisjointFields(r, q) ==
    \A f \in FieldKeys :
        \/ ContactField(inflight[r].contact, f) = <<>>
        \/ ContactField(inflight[q].contact, f) = <<>>

\* C23: UpdateContact requests that run at the same time on one stored
\* contact: in every interleaving a field that the requests applied so far
\* supply holds the value of one of them, and a field none of them supplies
\* holds its value of before; so requests with no field in common are both
\* fully applied, none of their writes is lost, and no field ever holds
\* another value.
C23_NoLostUpdate ==
    inflight # <<>> =>
        /\ Len(store) = Len(ConcurrentStore)
        /\ \A i \in 1..Len(ConcurrentStore) :
               /\ store[i]._id = ConcurrentStore[i]._id
               /\ \A f \in FieldKeys :
                      IF Suppliers(i, f) = {}
                      THEN DocField(store[i], f)
                               = DocField(ConcurrentStore[i], f)
                      ELSE \E r \in Suppliers(i, f) :
                               DocField(store[i], f)
                                   = ContactField(inflight[r].contact, f)
               /\ \A r \in Aiming(i) : \A q \in Aiming(i) :
                      /\ r # q
                      /\ DisjointFields(r, q)
                      /\ AllCalled(Aiming(i))
                      => \A f \in FieldKeys :
                             ContactField(inflight[r].contact, f) # <<>> =>
                                 \/ DocField(store[i], f)
                                        = ContactField(inflight[r].contact, f)
                                 \/ \E p \in Aiming(i) \ {r, q} :
                                        DocField(store[i], f)
                                            = ContactField(inflight[p].contact, f)

C23_Witness ==
    /\ Len(inflight) >= 2
    /\ inflight[1].idParam = inflight[2].idParam
    /\ inflight[1].idParam = Hex(ConcurrentStore[1]._id)
    /\ inflight[1].contact = Contact(NilObjectID, sCy, <<>>, <<>>, <<>>)
    /\ inflight[2].contact = Contact(NilObjectID, <<>>, sCy, <<>>, sAl)
    /\ inflight[1].pc = "written"
    /\ inflight[2].pc = "written"
    /\ inflight[1].count = 1
    /\ inflight[2].count = 1
    /\ Decode(store[1]) = Contact(NewObjectID(1), sCy, sCy, s05, sAl)

C23_WitnessSameField ==
    /\ Len(inflight) >= 2
    /\ inflight[1].idParam = Hex(ConcurrentStore[1]._id)
    /\ inflight[2].idParam = Hex(ConcurrentStore[1]._id)
    /\ inflight[1].contact = Contact(NilObjectID, sCy, <<>>, <<>>, <<>>)
    /\ inflight[2].contact = Contact(NilObjectID, sBo, sAl, <<>>, <<>>)
    /\ inflight[1].pc # "decoded"
    /\ inflight[2].pc # "decoded"
    /\ store[1].firstName = sCy

====
